---- MODULE Spec2Model ----
(***************************************************************************)
(* Roommate expense tracker (src/app.py): the split computation            *)
(* calculate_splits and the Streamlit script around it.                    *)
(*                                                                         *)
(* Amounts are counted in paise (1/100 rupee, the minor currency unit), so *)
(* round(x, 2) of the source is rounding to a whole number of paise.  The  *)
(* records considered carry whole numbers of paise.                        *)
(*                                                                         *)
(* The source computes in binary floating point.  The model keeps of a     *)
(* float what decides the control flow:                                    *)
(*  - round(x, 2) is exact rounding except on an exact half-paisa tie,     *)
(*    where the binary representation decides; the model takes either      *)
(*    neighbour;                                                           *)
(*  - a magnitude of the sweep is [paise, off]: the decimal value, and     *)
(*    whether the float may differ from the float nearest to that decimal  *)
(*    by a rounding residue (far below one paisa).  Floats that are        *)
(*    multiples of 0.25 subtract exactly; any other subtraction may leave  *)
(*    a residue.  Two magnitudes of equal paise compare equal when neither *)
(*    is off, and compare any way otherwise.  x - x is exactly zero.       *)
(*                                                                         *)
(* Spec    : calculate_splits applied to a bounded snapshot of records.    *)
(* FairSpec: the same on the lists OneEach, with the fairness of a single  *)
(*           running thread.                                               *)
(* UISpec  : script runs triggered by the widgets (add, filter, delete),   *)
(*           each ending in the Split View call of calculate_splits.       *)
(*                                                                         *)
(* Left out: the 10 s cache of load_expenses and the sha token (every run  *)
(* reads what the repository holds), the date of a record, the Reset and   *)
(* Edit buttons and the chart.                                             *)
(***************************************************************************)
EXTENDS Integers, Sequences, FiniteSets

VARIABLES
    stored,        \* content of expenses.json in the remote repository
    expenses,      \* the list the current script run works on
    filter_name,   \* value of the "Filter by person" selectbox
    pressed,       \* the widget that triggered the current script run
    pc,            \* position of the script run
    people,        \* list(totals.keys())
    balances,      \* {p: round(totals[p] - avg, 2)}, in paise
    payers,        \* [(p, -amt)] for amt < 0
    receivers,     \* [(p, amt)] for amt > 0
    i,             \* cursor into payers (0-based, as in the source)
    j,             \* cursor into receivers (0-based)
    transactions   \* lines appended so far / returned

vars == <<stored, expenses, filter_name, pressed, pc, people, balances,
          payers, receivers, i, j, transactions>>

calcVars == <<people, balances, payers, receivers, i, j, transactions>>

----------------------------------------------------------------------------
(* Bounds and input domains *)

\* longest record list considered
MaxLen == 3

NAMES == <<"Sai varnith", "Pavan", "Aryan", "Sai Deekshith",
           "Mukhesh Kumar", "Rohan Aditya">>

\* the part of the roster that occurs in the records considered
Roster == {NAMES[1], NAMES[2], NAMES[3]}

\* amounts (paise) a record of expenses.json may carry; load_expenses
\* accepts whatever the file holds, negative numbers included
FileAmounts == {-1000, 0, 1, 3000, 9000}

\* number of people in the lists where everyone has one record
MaxPeople == 4

\* amounts (paise) of those lists
SmallAmounts == {0, 3, 5, 10}

\* amounts (paise) entered in the form; 0 is the number_input minimum
FormAmounts == {0, 3000, 9000}

Reasons == {"", "rent"}

Record(name, amount) == [name |-> name, amount |-> amount, reason |-> "rent"]

FileRecords == {Record(n, a) : n \in Roster, a \in FileAmounts}

SeqsUpTo(S, n) == UNION {[1..k -> S] : k \in 0..n}

\* the first MaxPeople people of NAMES, one record each
OneEach ==
    {[k \in 1..MaxPeople |-> Record(NAMES[k], f[k])] :
        f \in [1..MaxPeople -> SmallAmounts]}

\* the record lists calculate_splits is applied to
Inputs == SeqsUpTo(FileRecords, MaxLen) \cup OneEach

----------------------------------------------------------------------------
(* calculate_splits: the pure parts *)

NoExpensesLine == [text |-> "No expenses yet to calculate split."]

\* variant: an empty list comes back for an empty list
EmptyResult_NoNotice == <<>>

\* the value returned for an empty list
EmptyResult == <<NoExpensesLine>>

\* f"{payer} should pay {transfer} to {receiver}"
Line(payer, transfer, receiver) ==
    [payer |-> payer, transfer |-> transfer, receiver |-> receiver]

IsTransfer(line) == "payer" \in DOMAIN line

RECURSIVE KeysTo(_, _)
\* the keys of totals after the first k records, in insertion order
KeysTo(es, k) ==
    IF k = 0 THEN <<>>
    ELSE IF \E m \in 1..(k - 1) : es[m].name = es[k].name
         THEN KeysTo(es, k - 1)
         ELSE Append(KeysTo(es, k - 1), es[k].name)

RECURSIVE KeysLatestFirstTo(_, _)
KeysLatestFirstTo(es, k) ==
    IF k = 0 THEN <<>>
    ELSE IF \E m \in 1..(k - 1) : es[m].name = es[k].name
         THEN KeysLatestFirstTo(es, k - 1)
         ELSE <<es[k].name>> \o KeysLatestFirstTo(es, k - 1)

\* variant: a name seen for the first time goes to the front of the keys
Keys_LatestFirst(es) == KeysLatestFirstTo(es, Len(es))

\* list(totals.keys()): the names in order of first occurrence
Keys(es) == KeysTo(es, Len(es))

RECURSIVE PaidTo(_, _, _)
\* what p has paid over the first k records
PaidTo(es, p, k) ==
    IF k = 0 THEN 0
    ELSE PaidTo(es, p, k - 1) + (IF es[k].name = p THEN es[k].amount ELSE 0)

\* totals[p] += float(e["amount"])
Totals(es) ==
    [p \in {es[k].name : k \in DOMAIN es} |-> PaidTo(es, p, Len(es))]

RECURSIVE SumTo(_, _)
SumTo(es, k) == IF k = 0 THEN 0 ELSE SumTo(es, k - 1) + es[k].amount

\* sum(totals.values())
SumAmounts(es) == SumTo(es, Len(es))

\* variant: the average is taken over the records, not over the people
Divisor_Records(es) == Len(es)

\* the divisor of avg: len(people)
Divisor(es) == Len(Keys(es))

\* totals[p] - avg as the fraction Numerator / Divisor (paise)
Numerator(es, p) == Divisor(es) * Totals(es)[p] - SumAmounts(es)

IsTie(num, n) == 2 * (num % n) = n

\* round(num / n) to whole paise; up says which neighbour an exact tie takes
Round(num, n, up) ==
    LET q == num \div n
        r == num % n
    IN  IF 2 * r < n THEN q
        ELSE IF 2 * r > n THEN q + 1
        ELSE IF up THEN q + 1 ELSE q

\* the people whose balance is an exact half-paisa tie
TiePeople(es) ==
    {p \in DOMAIN Totals(es) : IsTie(Numerator(es, p), Divisor(es))}

\* balances = {p: round(totals[p] - avg, 2) for p in people}
Balances(es, ups) ==
    [p \in DOMAIN Totals(es) |->
        Round(Numerator(es, p), Divisor(es), p \in ups)]

\* a float holding exactly the float nearest to paise / 100
Amt(paise) == [paise |-> paise, off |-> FALSE]

Zero == Amt(0)

\* the float is a multiple of 0.25 held exactly
Exact(a) == ~a.off /\ a.paise % 25 = 0

\* the possible outcomes of comparing the floats a and b
Cmp(a, b) ==
    IF a.paise < b.paise THEN {"lt"}
    ELSE IF a.paise > b.paise THEN {"gt"}
    ELSE IF ~a.off /\ ~b.off THEN {"eq"}
    ELSE {"lt", "eq", "gt"}

Inverse(c) == IF c = "lt" THEN "gt" ELSE IF c = "gt" THEN "lt" ELSE "eq"

\* the possible values of the float a - b, where a compares to b as rel
Minus(a, b, rel) ==
    IF rel = "eq" THEN {Zero}
    ELSE LET d == a.paise - b.paise
         IN  {[paise |-> d, off |-> o] :
                 o \in IF d = 0 THEN {TRUE}
                       ELSE IF Exact(a) /\ Exact(b) THEN {FALSE}
                       ELSE BOOLEAN}

\* variant: a zero balance counts as a debt
IsPayer_OrZero(amt) == amt <= 0

IsPayer(amt) == amt < 0

\* variant: a zero balance counts as a credit
IsReceiver_OrZero(amt) == amt >= 0

\* variant: every non-zero balance counts as a credit
IsReceiver_NonZero(amt) == amt # 0

IsReceiver(amt) == amt > 0

\* payers = [(p, -amt) for p, amt in balances.items() if amt < 0]
Payers(ps, bal) ==
    LET owing == SelectSeq(ps, LAMBDA p : IsPayer(bal[p]))
    IN  [k \in DOMAIN owing |-> <<owing[k], Amt(-bal[owing[k]])>>]

\* receivers = [(p, amt) for p, amt in balances.items() if amt > 0]
Receivers(ps, bal) ==
    LET owed == SelectSeq(ps, LAMBDA p : IsReceiver(bal[p]))
    IN  [k \in DOMAIN owed |-> <<owed[k], Amt(bal[owed[k]])>>]

\* variant: max instead of min
Transfer_Max(c) == IF c = "lt" THEN "recv_amt" ELSE "pay_amt"

\* which argument min(pay_amt, recv_amt) returns when pay_amt compares to
\* recv_amt as c: the second if it is smaller, else the first
Transfer(c) == IF c = "gt" THEN "recv_amt" ELSE "pay_amt"

\* variant: the cursor advances on "< 0"
Settled_Negative(amt) == amt.paise < 0

\* the test "== 0" that advances a cursor
Settled(amt) == amt = Zero

----------------------------------------------------------------------------
(* The script: widgets and storage *)

\* the PUT of save_expenses answers with one of these status codes
PutStatus == {200, 201, 409}

SaveOk(status) == status \in {200, 201}

Pressed(key, row, status) == [key |-> key, i |-> row, status |-> status]

FilterChoices == {"All"} \cup Roster

\* [e for e in expenses if filter_name == "All" or e["name"] == filter_name]
Filtered(es, f) == SelectSeq(es, LAMBDA e : f = "All" \/ e.name = f)

\* expenses.pop(k), k counted from 0
Pop(es, k) == SubSeq(es, 1, k) \o SubSeq(es, k + 2, Len(es))

NoCalc ==
    /\ people = <<>>
    /\ balances = <<>>
    /\ payers = <<>>
    /\ receivers = <<>>
    /\ i = 0
    /\ j = 0
    /\ transactions = <<>>

ResetCalc ==
    /\ people' = <<>>
    /\ balances' = <<>>
    /\ payers' = <<>>
    /\ receivers' = <<>>
    /\ i' = 0
    /\ j' = 0
    /\ transactions' = <<>>

----------------------------------------------------------------------------
(* Initial state and first run *)

\* the app is being opened: nothing is loaded yet
Init ==
    /\ stored = <<>>
    /\ expenses = <<>>
    /\ filter_name = "All"
    /\ pressed = Pressed("open", -1, 0)
    /\ pc = "load"
    /\ NoCalc

\* the first run of the script: load_expenses answers with the content the
\* repository holds, one of files ([] when there is no file), and the run
\* goes on to the Split View
OpenApp(files) ==
    /\ pc = "load"
    /\ \E content \in files :
       /\ stored' = content
       /\ expenses' = content
    /\ pc' = "call"
    /\ UNCHANGED <<filter_name, pressed, calcVars>>

----------------------------------------------------------------------------
(* calculate_splits: the steps *)

\* entry of calculate_splits up to the head of the while loop
CalculateSplits ==
    /\ pc = "call"
    /\ IF expenses = <<>>
       THEN /\ transactions' = EmptyResult
            /\ pc' = "done"
            /\ UNCHANGED <<people, balances, payers, receivers, i, j>>
       ELSE \E ups \in SUBSET TiePeople(expenses) :
            LET keys == Keys(expenses)
                bal  == Balances(expenses, ups)
            IN
            /\ people' = keys
            /\ balances' = bal
            /\ payers' = Payers(keys, bal)
            /\ receivers' = Receivers(keys, bal)
            /\ i' = 0
            /\ j' = 0
            /\ transactions' = <<>>
            /\ pc' = "sweep"
    /\ UNCHANGED <<stored, expenses, filter_name, pressed>>

\* one iteration of the while loop
SweepStep ==
    /\ pc = "sweep"
    /\ i < Len(payers) /\ j < Len(receivers)
    /\ LET payer     == payers[i + 1][1]
           pay_amt   == payers[i + 1][2]
           receiver  == receivers[j + 1][1]
           recv_amt  == receivers[j + 1][2]
       IN  \E c \in Cmp(pay_amt, recv_amt) :
           LET which    == Transfer(c)
               transfer == IF which = "pay_amt" THEN pay_amt ELSE recv_amt
           IN
           \E pay_left \in Minus(pay_amt, transfer,
                                 IF which = "pay_amt" THEN "eq" ELSE c),
              recv_left \in Minus(recv_amt, transfer,
                                  IF which = "recv_amt" THEN "eq" ELSE Inverse(c)) :
           /\ transactions' = Append(transactions, Line(payer, transfer, receiver))
           /\ IF Settled(pay_left)
              THEN i' = i + 1 /\ payers' = payers
              ELSE i' = i /\ payers' = [payers EXCEPT ![i + 1] = <<payer, pay_left>>]
           /\ IF Settled(recv_left)
              THEN j' = j + 1 /\ receivers' = receivers
              ELSE j' = j /\ receivers' = [receivers EXCEPT ![j + 1] = <<receiver, recv_left>>]
    /\ UNCHANGED <<stored, expenses, filter_name, pressed, pc, people, balances>>

\* the loop condition fails: return transactions
Return ==
    /\ pc = "sweep"
    /\ ~(i < Len(payers) /\ j < Len(receivers))
    /\ pc' = "done"
    /\ UNCHANGED <<stored, expenses, filter_name, pressed, calcVars>>

----------------------------------------------------------------------------
(* Script runs triggered by a widget *)

\* "Add Expense" is submitted with the form holding name, amount and reason
AddExpense(name, amount, reason) ==
    /\ pc \in {"done", "stopped"}
    /\ ResetCalc
    /\ UNCHANGED filter_name
    /\ IF amount > 0 /\ reason # ""
       THEN /\ Len(stored) < MaxLen
            /\ \E status \in PutStatus :
               /\ pressed' = Pressed("submit", -1, status)
               /\ expenses' = Append(stored, [name |-> name, amount |-> amount,
                                              reason |-> reason])
               /\ IF SaveOk(status)
                  THEN stored' = expenses' /\ pc' = "call"
                  ELSE stored' = stored /\ pc' = "stopped"
       ELSE /\ pressed' = Pressed("submit", -1, 0)
            /\ expenses' = stored
            /\ stored' = stored
            /\ pc' = "call"

\* another entry of "Filter by person" is selected
SelectFilter(f) ==
    /\ pc = "done"
    /\ expenses # <<>>
    /\ ResetCalc
    /\ filter_name' = f
    /\ pressed' = Pressed("filter", -1, 0)
    /\ expenses' = stored
    /\ stored' = stored
    /\ pc' = "call"

\* the Delete button of displayed row number row (key delete_<row>) is pressed
Delete(row) ==
    /\ pc = "done"
    /\ expenses # <<>>
    /\ row \in 0..(Len(Filtered(expenses, filter_name)) - 1)
    /\ ResetCalc
    /\ UNCHANGED filter_name
    /\ \E status \in PutStatus :
       /\ pressed' = Pressed("delete", row, status)
       /\ IF SaveOk(status)
          THEN /\ stored' = Pop(stored, row)
               /\ expenses' = stored'
               /\ pc' = "call"
          ELSE /\ stored' = stored
               /\ expenses' = Pop(stored, row)
               /\ pc' = "stopped"

----------------------------------------------------------------------------
(* Specifications *)

\* calculate_splits on every list of Inputs
Next ==
    \/ OpenApp(Inputs)
    \/ CalculateSplits
    \/ SweepStep
    \/ Return

Spec == Init /\ [][Next]_vars

\* calculate_splits on the lists where everyone has one record
FairNext ==
    \/ OpenApp(OneEach)
    \/ CalculateSplits
    \/ SweepStep
    \/ Return

\* the script is one thread that runs on: a step it can take, it takes
FairSpec == Init /\ [][FairNext]_vars /\ WF_vars(FairNext)

\* the app opened on a repository without expenses.json, and the widgets
UINext ==
    \/ OpenApp({<<>>})
    \/ CalculateSplits
    \/ SweepStep
    \/ Return
    \/ \E name \in Roster, amount \in FormAmounts, reason \in Reasons :
          AddExpense(name, amount, reason)
    \/ \E f \in FilterChoices : SelectFilter(f)
    \/ \E row \in 0..(MaxLen - 1) : Delete(row)

UISpec == Init /\ [][UINext]_vars

----------------------------------------------------------------------------
(* Vocabulary of the properties *)

Abs(x) == IF x < 0 THEN -x ELSE x

NonNegative(es) == \A k \in DOMAIN es : es[k].amount >= 0

HasNegative(es) == \E k \in DOMAIN es : es[k].amount < 0

A == NAMES[1]

B == NAMES[2]

C == NAMES[3]

\* the transfer lines among the returned lines
TransferLines == SelectSeq(transactions, IsTransfer)

NumTransfers == Len(TransferLines)

Debtors == {p \in DOMAIN balances : balances[p] < 0}

Creditors == {p \in DOMAIN balances : balances[p] > 0}

\* 1 minor currency unit times the number of participants
Tolerance == Cardinality(DOMAIN balances)

RECURSIVE SumOver(_, _)
SumOver(f, S) ==
    IF S = {} THEN 0
    ELSE LET x == CHOOSE y \in S : TRUE IN f[x] + SumOver(f, S \ {x})

RECURSIVE Flow(_, _, _)
\* the paise p has paid (sign = 1) or received (sign = -1) over the lines ls
Flow(ls, p, sign) ==
    IF ls = <<>> THEN 0
    ELSE LET l == ls[Len(ls)]
         IN  Flow(SubSeq(ls, 1, Len(ls) - 1), p, sign)
             + (IF sign = 1 /\ l.payer = p THEN l.transfer.paise ELSE 0)
             + (IF sign = -1 /\ l.receiver = p THEN l.transfer.paise ELSE 0)

\* the balance of p once every emitted transfer is applied
Running(p) ==
    balances[p] + Flow(TransferLines, p, 1) - Flow(TransferLines, p, -1)

\* position (from 1) of the first record of p in the record sequence
FirstIndex(p) ==
    CHOOSE k \in DOMAIN expenses :
        /\ expenses[k].name = p
        /\ \A m \in 1..(k - 1) : expenses[m].name # p

InOrder(ls, field) ==
    \A k \in 1..(Len(ls) - 1) :
        FirstIndex(ls[k][field]) <= FirstIndex(ls[k + 1][field])

\* index (from 0) in es of the record shown in row number row under filter f
ShownIndex(es, f, row) ==
    LET shown == {k \in DOMAIN es : f = "All" \/ es[k].name = f}
    IN  (CHOOSE k \in shown : Cardinality({m \in shown : m < k}) = row) - 1

\* the float is strictly positive
Positive(a) == a.paise > 0 \/ (a.paise = 0 /\ a.off)

\* the float is a rounding residue: not zero, far below one paisa
Residue(a) == a.paise = 0 /\ a.off

RemoveAt(es, k) == [m \in 1..(Len(es) - 1) |-> IF m <= k THEN es[m] ELSE es[m + 1]]

----------------------------------------------------------------------------
(* Properties *)

\* C1: for a non-empty list of records with non-negative amounts, applying
\* every returned transfer to the rounded balances leaves every participant
\* within the tolerance (1 paisa times the number of participants) of zero.
C1_TransfersSettle ==
    (pc = "done" /\ expenses # <<>> /\ NonNegative(expenses)) =>
        \A p \in DOMAIN balances : Abs(Running(p)) <= Tolerance

\* two transfers were applied and rounding left a participant off zero
C1_Witness ==
    /\ pc = "done"
    /\ NonNegative(expenses)
    /\ NumTransfers = 2
    /\ \E p \in DOMAIN balances : Running(p) # 0

\* C2: for a non-empty list of records the rounded balances sum to zero
\* within the tolerance of 1 paisa times the number of participants.
C2_BalancesSumToZero ==
    (pc \in {"sweep", "done"} /\ expenses # <<>>) =>
        Abs(SumOver(balances, DOMAIN balances)) <= Tolerance

\* three participants whose rounded balances do not sum to exactly zero
C2_Witness ==
    /\ pc = "sweep"
    /\ Cardinality(DOMAIN balances) = 3
    /\ SumOver(balances, DOMAIN balances) # 0

\* C3: the number of transfers is at most debtors + creditors - 1 when there
\* is at least one debtor and one creditor, and zero otherwise.
C3_TransferCountBound ==
    IF Debtors # {} /\ Creditors # {}
    THEN NumTransfers <= Cardinality(Debtors) + Cardinality(Creditors) - 1
    ELSE NumTransfers = 0

\* the bound is attained with three participants
C3_Witness ==
    /\ pc = "done"
    /\ Cardinality(Debtors) + Cardinality(Creditors) = 3
    /\ NumTransfers = 2

\* C4 as stated: an empty record list gives no balances and an empty
\* sequence of lines.
C4_EmptyGivesEmpty ==
    (pc = "done" /\ expenses = <<>>) =>
        (balances = <<>> /\ transactions = <<>>)

\* C4 as amended: an empty record list makes calculate_splits return, without
\* an error, the single notice line "No expenses yet to calculate split.";
\* no balances are computed and no line is a transfer.
C4_EmptyGivesNotice ==
    (pc = "done" /\ expenses = <<>>) =>
        /\ balances = <<>>
        /\ transactions = <<NoExpensesLine>>
        /\ NumTransfers = 0

\* calculate_splits has returned for the empty list
C4_Witness == pc = "done" /\ expenses = <<>> /\ Len(transactions) = 1

\* C5: no transfer has amount zero: every emitted amount is strictly
\* positive, and so is every magnitude still outstanding during the sweep.
C5_NoZeroTransfer ==
    /\ \A k \in DOMAIN TransferLines : Positive(TransferLines[k].transfer)
    /\ pc = "sweep" =>
        /\ \A k \in (i + 1)..Len(payers) : Positive(payers[k][2])
        /\ \A k \in (j + 1)..Len(receivers) : Positive(receivers[k][2])

\* a magnitude came down to a float residue mid-sweep and the next transfer
\* carried that residue
C5_Witness ==
    /\ pc = "sweep"
    /\ Len(transactions) = 3
    /\ Residue(transactions[3].transfer)

\* C6: a record with a negative amount makes the computation fail with an
\* input error: it computes no balances and returns no lines.
C6_NegativeRejected ==
    HasNegative(expenses) =>
        (pc \notin {"sweep", "done"} /\ balances = <<>> /\ transactions = <<>>)

\* C7: no transfer has the same participant as payer and receiver; with one
\* distinct payer the balance is zero and there is no transfer.
C7_NoSelfTransfer ==
    /\ \A k \in DOMAIN TransferLines :
          TransferLines[k].payer # TransferLines[k].receiver
    /\ (pc \in {"sweep", "done"} /\ Len(people) = 1) =>
          (balances[people[1]] = 0 /\ NumTransfers = 0)

\* one distinct payer, with several records, has been settled
C7_Witness ==
    /\ pc = "done"
    /\ Len(people) = 1
    /\ Len(expenses) >= 2
    /\ \E k \in DOMAIN expenses : expenses[k].amount > 0

\* C8: debtors and creditors are taken in order of first occurrence in the
\* records and the transfers come in sweep order: payers, and receivers, of
\* successive transfers never step back in first-occurrence order; records
\* [(A,90),(B,30),(C,0)] give exactly [B pays 10 to A, C pays 40 to A].
C8_SweepOrder ==
    /\ pc \in {"sweep", "done"} =>
        /\ \A k \in 1..(Len(payers) - 1) :
              FirstIndex(payers[k][1]) < FirstIndex(payers[k + 1][1])
        /\ \A k \in 1..(Len(receivers) - 1) :
              FirstIndex(receivers[k][1]) < FirstIndex(receivers[k + 1][1])
        /\ InOrder(TransferLines, "payer")
        /\ InOrder(TransferLines, "receiver")
    /\ (pc = "done" /\ expenses = <<Record(A, 9000), Record(B, 3000), Record(C, 0)>>) =>
          transactions = <<Line(B, Amt(1000), A), Line(C, Amt(4000), A)>>

\* the example of the claim has been computed
C8_Witness ==
    /\ pc = "done"
    /\ expenses = <<Record(A, 9000), Record(B, 3000), Record(C, 0)>>
    /\ Len(transactions) = 2

\* C9: the sweep terminates: every iteration advances at least one cursor and
\* moves none back, no iteration runs once a list is exhausted, and the
\* computation reaches its return.
C9_SweepTerminates ==
    /\ [][(pc = "sweep" /\ pc' = "sweep") =>
            (i' >= i /\ j' >= j /\ i' + j' > i + j)]_vars
    /\ [][(pc = "sweep" /\ (i >= Len(payers) \/ j >= Len(receivers))) =>
            pc' = "done"]_vars
    /\ <>(pc = "done")

\* the loop ran more than once and returned
C9_Witness == pc = "done" /\ i + j >= 2 /\ NumTransfers >= 2

\* C10: Delete on a displayed row removes from the stored list exactly the
\* record shown in that row and keeps every other record, in order.
C10_DeleteRemovesShownRow ==
    [][(pc = "done" /\ pressed'.key = "delete" /\ SaveOk(pressed'.status)) =>
          stored' = RemoveAt(stored, ShownIndex(stored, filter_name, pressed'.i))]_vars

====
